---- MODULE Spec2Model ----
(***************************************************************************)
(* A model of the GPT class of WhatsGPT/model/_gpt.py: the forward pass's  *)
(* length check and result shapes, crop_block_size, the argument checks of *)
(* from_pretrained, and the autoregressive loop of generate (context      *)
(* cropping, temperature scaling, top-k filtering, sampling, appending).   *)
(*                                                                         *)
(* Tensors are modelled by what the claims read of them: a batch row is a  *)
(* sequence of token ids, a logit vector is a function from token ids to   *)
(* integers, and the numeric layers (embeddings, blocks, softmax) are the  *)
(* steps of a call's trace.  The logits a forward pass yields are any      *)
(* vector over LogitVals; the token multinomial draws is any token of      *)
(* non-zero probability.  self.cfg is read as the module's Config.         *)
(***************************************************************************)
EXTENDS Integers, Sequences, FiniteSets, TLC

\* ---------------------------------------------------------------- bounds
MaxBlock == 2       \* block sizes range over 1..MaxBlock
MaxLen == 2         \* longest input sequence
MaxNew == 2         \* largest max_new_tokens
MaxBatch == 2       \* largest batch size of a forward call
MaxTopK == 3        \* largest top_k
VocabSize == 2      \* cfg.gpt.vocab_size
NLayer == 2         \* cfg.gpt.n_layer, the number of blocks

\* -------------------------------------------------- checkpoint constants
PretrainedVocab == 50257
PretrainedBlock == 1024

Vocab == 0 .. (VocabSize - 1)
LogitVals == {0, 2, 4}
Temperatures == {1, 2}
DropoutVals == {0, 1}
ModelTypes == {"gpt2", "gpt2-medium", "gpt2-large", "gpt2-xl"}
ModelTypeInputs == ModelTypes \cup {"gpt3"}
OverrideKeys == {"dropout", "bias"}

VARIABLES
    block_size,      \* cfg.gpt.block_size
    wpe_rows,        \* rows of transformer.wpe.weight
    attn_bias,       \* per block, the side of the causal mask block.attn.bias
    has_bias,        \* hasattr(block.attn, 'bias')
    gpt_args,        \* cfg.gpt_args
    op,              \* the last method called
    arg,             \* its arguments
    raised,          \* the exception it raised, or "none"
    trace,           \* the steps it performed, in order
    out,             \* what forward returned
    gen_pc,          \* generate: "idle", "loop", "done" or "raised"
    idx0,            \* generate: the idx argument
    idx,             \* generate: the running sequence; the return value when done
    max_new_tokens,  \* generate: argument
    temperature,     \* generate: argument
    top_k,           \* generate: argument; given = FALSE stands for None
    iter,            \* generate: iterations of the loop completed
    idx_cond,        \* generate: the context of the last forward pass
    kept             \* generate: tokens whose logit was not set to -Inf last step

model_vars == <<block_size, wpe_rows, attn_bias, has_bias, gpt_args>>
call_vars == <<op, arg, raised, trace, out>>
gen_vars == <<gen_pc, idx0, idx, max_new_tokens, temperature, top_k, iter, idx_cond, kept>>
vars == <<block_size, wpe_rows, attn_bias, has_bias, gpt_args,
          op, arg, raised, trace, out,
          gen_pc, idx0, idx, max_new_tokens, temperature, top_k, iter, idx_cond, kept>>

\* ------------------------------------------------------------- helpers
Min(a, b) == IF a <= b THEN a ELSE b

Max(a, b) == IF a >= b THEN a ELSE b

SeqsUpTo(S, n) == UNION {[1 .. m -> S] : m \in 0 .. n}

\* torch.arange(0, t): the positions 0, 1, ..., t-1
Arange(t) == [p \in 1 .. t |-> p - 1]

\* x[start:] of Python, start possibly negative
PySliceFrom(s, start) ==
    LET n == Len(s)
        from == IF start < 0 THEN Max(n + start, 0) ELSE Min(start, n)
    IN  SubSeq(s, from + 1, n)

\* weight[:stop] of Python for a table of n rows, stop possibly negative
PySliceRows(n, stop) == IF stop < 0 THEN Max(n + stop, 0) ELSE Min(stop, n)

NoOut == [shape |-> <<>>, loss |-> "unset", pos |-> <<>>]

NoTopK == [given |-> FALSE, k |-> 0]

NoArg == [none |-> TRUE]

\* ------------------------------------------------------------- forward
\* assert t <= self.cfg.gpt.block_size
LengthAcceptedOffByOne(t, bs) == t < bs

LengthAccepted(t, bs) == t <= bs

\* lm_head(x[:, [-1], :]): the last position only
LastPositionShapeAll(b, t) == <<b, t, VocabSize>>

LastPositionShape(b, t) == <<b, 1, VocabSize>>

\* lm_head(x): every position
AllPositionsShape(b, t) == <<b, t, VocabSize>>

Forward(b, t, has_targets, bs, rows) ==
    IF ~LengthAccepted(t, bs)
    THEN [raised |-> "AssertionError", trace |-> <<>>, out |-> NoOut]
    ELSE LET pos == Arange(t) IN
         IF \E p \in 1 .. Len(pos) : pos[p] >= rows
         THEN [raised |-> "IndexError", trace |-> <<"arange", "wte">>,
               out |-> [NoOut EXCEPT !.pos = pos]]
         ELSE IF has_targets
         THEN [raised |-> "none",
               trace |-> <<"arange", "wte", "wpe", "drop", "h", "ln_f", "lm_head", "cross_entropy">>,
               out |-> [shape |-> AllPositionsShape(b, t), loss |-> "tensor", pos |-> pos]]
         ELSE IF t = 0
         THEN [raised |-> "IndexError",
               trace |-> <<"arange", "wte", "wpe", "drop", "h", "ln_f">>,
               out |-> [NoOut EXCEPT !.pos = pos]]
         ELSE [raised |-> "none",
               trace |-> <<"arange", "wte", "wpe", "drop", "h", "ln_f", "lm_head">>,
               out |-> [shape |-> LastPositionShape(b, t), loss |-> "None", pos |-> pos]]

GenIdle ==
    /\ gen_pc' = "idle"
    /\ idx0' = <<>>
    /\ idx' = <<>>
    /\ max_new_tokens' = 0
    /\ temperature' = 1
    /\ top_k' = NoTopK
    /\ iter' = 0
    /\ idx_cond' = <<>>
    /\ kept' = {}

CallForward ==
    /\ gen_pc # "loop"
    /\ \E b \in 1 .. MaxBatch, t \in 0 .. (MaxBlock + 1), has_targets \in BOOLEAN :
          LET r == Forward(b, t, has_targets, block_size, wpe_rows) IN
          /\ op' = "forward"
          /\ arg' = [b |-> b, t |-> t, targets |-> has_targets]
          /\ raised' = r.raised
          /\ trace' = r.trace
          /\ out' = r.out
    /\ GenIdle
    /\ UNCHANGED model_vars

\* ----------------------------------------------------- crop_block_size
\* assert block_size <= self.cfg.gpt.block_size
CropAcceptedAlways(new_size, bs) == TRUE

CropAccepted(new_size, bs) == new_size <= bs

CropBlockSize(new_size) ==
    IF ~CropAccepted(new_size, block_size)
    THEN /\ raised' = "AssertionError"
         /\ trace' = <<>>
         /\ UNCHANGED model_vars
    ELSE /\ raised' = "none"
         /\ trace' = <<"cfg.gpt.block_size", "wpe.weight", "attn.bias">>
         /\ block_size' = new_size
         /\ wpe_rows' = PySliceRows(wpe_rows, new_size)
         /\ attn_bias' = IF has_bias
                         THEN [l \in 1 .. NLayer |-> PySliceRows(attn_bias[l], new_size)]
                         ELSE attn_bias
         /\ UNCHANGED <<has_bias, gpt_args>>

CallCropBlockSize ==
    /\ gen_pc # "loop"
    /\ \E new_size \in 1 .. (MaxBlock + 1) :
          /\ op' = "crop_block_size"
          /\ arg' = [block_size |-> new_size]
          /\ CropBlockSize(new_size)
    /\ out' = NoOut
    /\ GenIdle

\* ----------------------------------------------------- from_pretrained
\* assert model_type in {'gpt2', 'gpt2-medium', 'gpt2-large', 'gpt2-xl'}
ModelTypeAcceptedAlways(model_type) == TRUE

ModelTypeAccepted(model_type) == model_type \in ModelTypes

\* override_args = override_args or {}
OverrideOrEmpty(override_args) ==
    IF override_args.none THEN {} ELSE override_args.keys

\* assert all(k == 'dropout' for k in override_args)
OverrideAcceptedAny(keys) == keys = {} \/ \E k \in keys : k = "dropout"

OverrideAccepted(keys) == \A k \in keys : k = "dropout"

\* the table of n_layer, n_head and n_embd per model_type
ModelArgs(model_type) ==
    CASE model_type = "gpt2"        -> [n_layer |-> 12, n_head |-> 12, n_embd |-> 768]
      [] model_type = "gpt2-medium" -> [n_layer |-> 24, n_head |-> 16, n_embd |-> 1024]
      [] model_type = "gpt2-large"  -> [n_layer |-> 36, n_head |-> 20, n_embd |-> 1280]
      [] model_type = "gpt2-xl"     -> [n_layer |-> 48, n_head |-> 25, n_embd |-> 1600]

GptArgs(model_type, keys, dropout) ==
    LET a == ModelArgs(model_type) IN
    [set |-> TRUE, n_layer |-> a.n_layer, n_head |-> a.n_head, n_embd |-> a.n_embd,
     vocab_size |-> PretrainedVocab, block_size |-> PretrainedBlock, bias |-> TRUE,
     dropout_set |-> "dropout" \in keys,
     dropout |-> IF "dropout" \in keys THEN dropout ELSE 0]

\* compatible: whether the state_dict of the model built matches the checkpoint's
FromPretrained(model_type, override_args, compatible) ==
    IF ~ModelTypeAccepted(model_type)
    THEN /\ raised' = "AssertionError"
         /\ trace' = <<>>
         /\ gpt_args' = gpt_args
    ELSE LET keys == OverrideOrEmpty(override_args) IN
         IF ~OverrideAccepted(keys)
         THEN /\ raised' = "AssertionError"
              /\ trace' = <<>>
              /\ gpt_args' = gpt_args
         ELSE /\ gpt_args' = GptArgs(model_type, keys, override_args.dropout)
              /\ IF compatible
                 THEN /\ raised' = "none"
                      /\ trace' = <<"cfg.gpt_args", "GPT()", "state_dict",
                                    "GPT2LMHeadModel.from_pretrained", "copy_">>
                 ELSE /\ raised' = "AssertionError"
                      /\ trace' = <<"cfg.gpt_args", "GPT()", "state_dict",
                                    "GPT2LMHeadModel.from_pretrained">>

OverrideInputs ==
    {[none |-> TRUE, keys |-> {}, dropout |-> 0]}
    \cup {[none |-> FALSE, keys |-> ks, dropout |-> d] : ks \in SUBSET OverrideKeys, d \in DropoutVals}

CallFromPretrained ==
    /\ gen_pc # "loop"
    /\ \E model_type \in ModelTypeInputs, override_args \in OverrideInputs, compatible \in BOOLEAN :
          /\ op' = "from_pretrained"
          /\ arg' = [model_type |-> model_type, override_args |-> override_args]
          /\ FromPretrained(model_type, override_args, compatible)
    /\ out' = NoOut
    /\ GenIdle
    /\ UNCHANGED <<block_size, wpe_rows, attn_bias, has_bias>>

\* ------------------------------------------------------------ generate
\* idx if idx.size(1) <= block_size else idx[:, -block_size:]
CropContextFirst(s, bs) == IF Len(s) <= bs THEN s ELSE SubSeq(s, 1, bs)

CropContext(s, bs) == IF Len(s) <= bs THEN s ELSE PySliceFrom(s, 0 - bs)

\* logits[:, -1, :] / temperature
Scale(logits, temp) == [tok \in Vocab |-> logits[tok] \div temp]

\* torch.topk(logits, k): the k largest values, largest first
RECURSIVE TopKValues(_, _, _)
TopKValues(logits, toks, k) ==
    IF k = 0 \/ toks = {}
    THEN <<>>
    ELSE LET m == CHOOSE a \in toks : \A c \in toks : logits[c] <= logits[a]
         IN  <<logits[m]>> \o TopKValues(logits, toks \ {m}, k - 1)

\* logits[logits < v[:, [-1]]] = -float('Inf'): the tokens left with a finite logit
TopKKept(logits, k) ==
    LET v == TopKValues(logits, Vocab, Min(k, VocabSize))
    IN  {tok \in Vocab : ~(logits[tok] < v[Len(v)])}

\* the tokens F.softmax gives a non-zero probability
Support(logits, topk) == IF topk.given THEN TopKKept(logits, topk.k) ELSE Vocab

\* torch.cat((idx, idx_next), dim=1)
CatOverwrite(s, tok) == IF Len(s) = 0 THEN <<tok>> ELSE [s EXCEPT ![1] = tok] \o <<tok>>

Cat(s, tok) == Append(s, tok)

TopKInputs == {NoTopK} \cup {[given |-> TRUE, k |-> k] : k \in 1 .. MaxTopK}

\* generate reads the model and its arguments only, nothing of an earlier
\* call, so a call is started from the states in which no call is recorded
CallGenerate ==
    /\ gen_pc = "idle"
    /\ \E s \in SeqsUpTo(Vocab, MaxLen), n \in 0 .. MaxNew,
          temp \in Temperatures, topk \in TopKInputs :
          /\ idx0' = s
          /\ idx' = s
          /\ max_new_tokens' = n
          /\ temperature' = temp
          /\ top_k' = topk
    /\ gen_pc' = "loop"
    /\ iter' = 0
    /\ idx_cond' = <<>>
    /\ kept' = {}
    /\ op' = "generate"
    /\ arg' = NoArg
    /\ raised' = "none"
    /\ trace' = <<>>
    /\ out' = NoOut
    /\ UNCHANGED model_vars

\* one iteration of the loop
GenerateStep ==
    /\ gen_pc = "loop"
    /\ iter < max_new_tokens
    /\ LET ctx == CropContext(idx, block_size)
           r == Forward(1, Len(ctx), FALSE, block_size, wpe_rows)
       IN  /\ idx_cond' = ctx
           /\ trace' = r.trace
           /\ out' = r.out
           /\ raised' = r.raised
           /\ IF r.raised # "none"
              THEN /\ gen_pc' = "raised"
                   /\ UNCHANGED <<idx, iter, kept>>
              ELSE \E logits \in [Vocab -> LogitVals] :
                      LET support == Support(Scale(logits, temperature), top_k) IN
                      \E idx_next \in support :
                         /\ kept' = support
                         /\ idx' = Cat(idx, idx_next)
                         /\ iter' = iter + 1
                         /\ gen_pc' = "loop"
    /\ UNCHANGED <<op, arg, idx0, max_new_tokens, temperature, top_k>>
    /\ UNCHANGED model_vars

\* return idx
GenerateReturn ==
    /\ gen_pc = "loop"
    /\ iter = max_new_tokens
    /\ gen_pc' = "done"
    /\ UNCHANGED <<idx0, idx, max_new_tokens, temperature, top_k, iter, idx_cond, kept>>
    /\ UNCHANGED call_vars
    /\ UNCHANGED model_vars

Init ==
    /\ block_size \in 1 .. MaxBlock
    /\ wpe_rows = block_size
    /\ has_bias \in BOOLEAN
    /\ attn_bias = [l \in 1 .. NLayer |-> IF has_bias THEN block_size ELSE 0]
    /\ gpt_args = [set |-> FALSE]
    /\ op = "__init__"
    /\ arg = NoArg
    /\ raised = "none"
    /\ trace = <<>>
    /\ out = NoOut
    /\ gen_pc = "idle"
    /\ idx0 = <<>>
    /\ idx = <<>>
    /\ max_new_tokens = 0
    /\ temperature = 1
    /\ top_k = NoTopK
    /\ iter = 0
    /\ idx_cond = <<>>
    /\ kept = {}

Next ==
    \/ CallForward
    \/ CallCropBlockSize
    \/ CallFromPretrained

\* the methods of a constructed model, called in any order
Spec == Init /\ [][Next]_vars

NextGen ==
    \/ CallCropBlockSize
    \/ CallGenerate
    \/ GenerateStep
    \/ GenerateReturn

\* generate, iteration by iteration, on a model of any block size
SpecGen == Init /\ [][NextGen]_vars

\* ------------------------------------------------------------- claims
Last(s) == s[Len(s)]

IsPrefix(p, s) == Len(p) <= Len(s) /\ SubSeq(s, 1, Len(p)) = p

C3_AtMostKKept ==
    (op = "generate" /\ top_k.given /\ iter >= 1) =>
        /\ Cardinality(kept) <= Min(top_k.k, VocabSize)
        /\ Last(idx) \in kept

\* C4, as stated: forward raises AssertionError, before any lookup, when
\* t > block_size; for every t <= block_size it does not raise and every
\* position index is in 0..t-1.
C4_NeverRaisesWithinBlock ==
    op = "forward" =>
        /\ arg.t > block_size => (raised = "AssertionError" /\ trace = <<>>)
        /\ arg.t <= block_size =>
              /\ raised = "none"
              /\ \A p \in 1 .. Len(out.pos) : out.pos[p] \in 0 .. (arg.t - 1)

\* C4, amended: forward raises AssertionError, before any lookup or layer,
\* when t > block_size; for every t with 1 <= t <= block_size it does not
\* raise and its position indices are exactly 0..t-1; for t = 0 the length
\* assertion passes, and the call without targets raises IndexError where
\* it selects the last position.
C4_ForwardLengthCheck ==
    op = "forward" =>
        /\ arg.t > block_size => (raised = "AssertionError" /\ trace = <<>>)
        /\ (1 <= arg.t /\ arg.t <= block_size) =>
              /\ raised = "none"
              /\ Len(out.pos) = arg.t
              /\ \A p \in 1 .. Len(out.pos) : out.pos[p] \in 0 .. (arg.t - 1)
        /\ arg.t = 0 =>
              /\ raised # "AssertionError"
              /\ ~arg.targets => raised = "IndexError"

C4_Witness ==
    /\ op = "forward"
    /\ arg.t = block_size + 1
    /\ raised = "AssertionError"

C6_CropRejectsLarger ==
    [][(op' = "crop_block_size" /\ arg'.block_size > block_size) =>
          /\ raised' = "AssertionError"
          /\ block_size' = block_size
          /\ wpe_rows' = wpe_rows
          /\ attn_bias' = attn_bias]_vars

C6_Witness ==
    /\ op = "crop_block_size"
    /\ arg.block_size > block_size
    /\ raised = "AssertionError"

\* C7: from_pretrained raises AssertionError for a model_type outside the
\* four GPT-2 names and for override_args with any key other than 'dropout',
\* in both cases before cfg.gpt_args is written and before any model is
\* built or downloaded.
C7_FromPretrainedRejects ==
    [][(/\ op' = "from_pretrained"
        /\ \/ arg'.model_type \notin {"gpt2", "gpt2-medium", "gpt2-large", "gpt2-xl"}
           \/ /\ ~arg'.override_args.none
              /\ \E k \in arg'.override_args.keys : k # "dropout") =>
          /\ raised' = "AssertionError"
          /\ trace' = <<>>
          /\ gpt_args' = gpt_args]_vars

C7_Witness ==
    /\ op = "from_pretrained"
    /\ arg.model_type = "gpt2"
    /\ ~arg.override_args.none
    /\ arg.override_args.keys = {"dropout", "bias"}
    /\ raised = "AssertionError"
    /\ trace = <<>>

====
